---- MODULE Spec2Model ----
(***************************************************************************)
(* Asynchronous-operation orchestration of the Azure VM / virtual-network  *)
(* client: VmClient (CreateAzureVM, CreateAzureVMConfiguration, the role   *)
(* operations) and VnetClient.SetVirtualNetworkConfiguration, together     *)
(* with the operation tracker (Client.waitAsyncOperation) they call.       *)
(*                                                                         *)
(* One caller thread runs one public operation at a time.  pc is its       *)
(* position; every remote call is one step whose answer the environment    *)
(* chooses.  calls is the log of the remote calls of the running           *)
(* operation, awaits the log of its waitAsyncOperation calls.              *)
(***************************************************************************)
EXTENDS Integers, Sequences, FiniteSets, TLC

VARIABLES
    pc,        \* position of the caller thread
    op,        \* public operation in progress ("none" when idle)
    args,      \* its arguments
    calls,     \* remote calls issued so far by the operation, in order
    awaits,    \* waitAsyncOperation calls made so far by the operation, in order
    pollSeq,   \* answers of the status polls of the latest waitAsyncOperation
    err,       \* the local variable err of the running function
    result,    \* the error returned to the caller (meaningful when pc = "done")
    roleOut,   \* the *Role returned by CreateAzureVMConfiguration
    locationInfo,  \* VirtualMachineRoleSizes of the Location returned by GetLocation
    storage,   \* locations that own a storage service (remote state)
    role,      \* the Role the caller holds and passes to the configuration builders
    wf         \* the workflows of concurrent callers (empty for a single caller)

vars == <<pc, op, args, calls, awaits, pollSeq, err, result, roleOut,
          locationInfo, storage, role, wf>>

----------------------------------------------------------------------------
(* Bounds *)

\* Number of status polls that fit into the wait ceiling of one await.
MaxPolls == 3

----------------------------------------------------------------------------
(* Error values.  A Go error is modelled as a chain of causes: nil is the   *)
(* empty chain, an ordinary error a chain of one cause.                     *)

nil == << >>

Error(code, a) == << [code |-> code, arg |-> a] >>

paramNotSpecifiedError(param) == Error("paramNotSpecifiedError", <<param>>)

invalidDnsLengthError == Error("invalidDnsLengthError", << >>)

invalidRoleSizeInLocationError(instanceSize, location) ==
    Error("invalidRoleSizeInLocationError", <<instanceSize, location>>)

\* Failure of a request at the transport (sendAzure*Request, Get* lookups).
TransportError == Error("TransportError", << >>)

\* ioutil.ReadFile failing on the certificate path.
ReadFileError == Error("ReadFileError", << >>)

\* newUUID failing to read random bytes.
UUIDError == Error("UUIDError", << >>)

\* Tracker failures (spec section 7).
Timeout == Error("Timeout", << >>)

RemoteOperationFailed(code) == Error("RemoteOperationFailed", <<code>>)

----------------------------------------------------------------------------
(* Inputs *)

DnsNames == {"", "ab", "abc", "abcdefghijklmnopqrstuvwxy", "abcdefghijklmnopqrstuvwxyz"}

Locations == {"", "West US"}

Names == {"", "n"}

RoleSizes == {"Small", "Large"}

InstanceSizes == {""} \cup RoleSizes

ImageNames == {"", "img"}

ErrorCodes == {"ResourceNotFound", "InternalError"}

\* A *Role argument: the nil pointer, or a pointer to a Role.
NilRole == [IsNil |-> TRUE, RoleName |-> "", RoleSize |-> "", SourceImageName |-> "",
            UseCertAuth |-> FALSE, CertPath |-> "",
            ConfigurationSets |-> << >>, ResourceExtensionReferences |-> << >>]

Role(name, useCertAuth, certPath) ==
    [NilRole EXCEPT !.IsNil = FALSE, !.RoleName = name, !.RoleSize = "Small",
                    !.SourceImageName = "img", !.UseCertAuth = useCertAuth,
                    !.CertPath = certPath]

RoleInputs == {NilRole, Role("abc", FALSE, ""), Role("abc", TRUE, "cert.pem")}

NoArgs == [cfg |-> NilRole, dnsName |-> "", location |-> "", cloudserviceName |-> "",
           deploymentName |-> "", roleName |-> "", instanceSize |-> "", imageName |-> "",
           userName |-> "", password |-> << >>, certPath |-> "", name |-> "",
           dockerPort |-> 0, version |-> ""]

----------------------------------------------------------------------------
(* Operation tracker: Client.waitAsyncOperation(requestId)                  *)

\* Answers of one status poll: a transport failure, or an AsyncOperation.
PollAnswers ==
    {[err |-> TRUE, status |-> "", code |-> ""]}
    \cup {[err |-> FALSE, status |-> s, code |-> ""] : s \in {"InProgress", "Succeeded"}}
    \cup {[err |-> FALSE, status |-> "Failed", code |-> c] : c \in ErrorCodes}

\* A waitAsyncOperation call: the request id awaited, polls made, whether it
\* returned, and the error it returned.
NewAwait(id) == [id |-> id, polls |-> 0, done |-> FALSE, err |-> nil]

\* Variant of waitAsyncOperation that gives up on the first poll that fails at
\* the transport instead of polling again.
waitAsyncOperation_NoRetry(aw, answer) ==
    LET n == aw.polls + 1 IN
    IF answer.err
    THEN [aw EXCEPT !.polls = n, !.done = TRUE, !.err = TransportError]
    ELSE IF answer.status = "Succeeded"
    THEN [aw EXCEPT !.polls = n, !.done = TRUE, !.err = nil]
    ELSE IF answer.status = "Failed"
    THEN [aw EXCEPT !.polls = n, !.done = TRUE, !.err = RemoteOperationFailed(answer.code)]
    ELSE IF n >= MaxPolls
    THEN [aw EXCEPT !.polls = n, !.done = TRUE, !.err = Timeout]
    ELSE [aw EXCEPT !.polls = n]

\* One turn of the polling loop of await aw, the poll being answered by answer.
waitAsyncOperation(aw, answer) ==
    LET n == aw.polls + 1 IN
    IF ~answer.err /\ answer.status = "Succeeded"
    THEN [aw EXCEPT !.polls = n, !.done = TRUE, !.err = nil]
    ELSE IF ~answer.err /\ answer.status = "Failed"
    THEN [aw EXCEPT !.polls = n, !.done = TRUE, !.err = RemoteOperationFailed(answer.code)]
    ELSE IF n >= MaxPolls
    THEN [aw EXCEPT !.polls = n, !.done = TRUE, !.err = Timeout]
    ELSE [aw EXCEPT !.polls = n]

\* The latest waitAsyncOperation call of the running operation.
LastAwait == awaits[Len(awaits)]

Awaiting == Len(awaits) > 0 /\ ~LastAwait.done

AwaitReturned == Len(awaits) > 0 /\ LastAwait.done

\* One status poll of the await in progress.
Poll ==
    /\ Awaiting
    /\ \E answer \in PollAnswers :
         /\ awaits' = [awaits EXCEPT ![Len(awaits)] = waitAsyncOperation(@, answer)]
         /\ pollSeq' = Append(pollSeq, answer)
    /\ UNCHANGED <<pc, op, args, calls, err, result, roleOut, locationInfo, storage>>
    /\ UNCHANGED <<role, wf>>

----------------------------------------------------------------------------
(* Remote calls *)

\* A call that failed, or that returns no request id.
Call(name, e) == [call |-> name, err |-> e, id |-> 0]

\* A mutating call the provider accepted, answered with request id id.
Accepted(name, id) == [call |-> name, err |-> nil, id |-> id]

\* The request id the provider hands out next.
NextRequestId == Cardinality({i \in 1..Len(calls) : calls[i].id > 0}) + 1

Issued(name) == {i \in 1..Len(calls) : calls[i].call = name}

\* Number of calls that reached the transport: requests and status polls.
TransportCalls ==
    LET RECURSIVE Polls(_)
        Polls(i) == IF i = 0 THEN 0 ELSE awaits[i].polls + Polls(i - 1)
    IN Len(calls) + Polls(Len(awaits))

\* The function returns e to the caller.
Return(e) ==
    /\ pc' = "done"
    /\ result' = e

\* Submit a mutating request; on acceptance start awaiting it at position next.
SubmitThenWait(name, next) ==
    /\ calls' = Append(calls, Accepted(name, NextRequestId))
    /\ awaits' = Append(awaits, NewAwait(NextRequestId))
    /\ pollSeq' = << >>
    /\ pc' = next

----------------------------------------------------------------------------
(* Validation helpers *)

\* Variant of verifyDNSname without the upper length limit.
verifyDNSname_NoUpperLimit(dns) ==
    IF Len(dns) < 3 THEN invalidDnsLengthError ELSE nil

verifyDNSname(dns) ==
    IF Len(dns) < 3 \/ Len(dns) > 25 THEN invalidDnsLengthError ELSE nil

----------------------------------------------------------------------------
(* VmClient.CreateAzureVM *)

\* Lines 47-61: argument validation.
CreateAzureVM_Validate(cfg, dnsName, location) ==
    IF cfg.IsNil THEN paramNotSpecifiedError("azureVMConfiguration")
    ELSE IF Len(dnsName) = 0 THEN paramNotSpecifiedError("dnsName")
    ELSE IF Len(location) = 0 THEN paramNotSpecifiedError("location")
    ELSE verifyDNSname(dnsName)

\* The caller enters CreateAzureVM(cfg, dnsName, location).
CreateAzureVM_Enter(cfg, dnsName, location) ==
    /\ pc = "idle"
    /\ op' = "CreateAzureVM"
    /\ args' = [NoArgs EXCEPT !.cfg = cfg, !.dnsName = dnsName, !.location = location]
    /\ LET e == CreateAzureVM_Validate(cfg, dnsName, location) IN
         IF e # nil
         THEN Return(e) /\ err' = e
         ELSE pc' = "CreateHostedService" /\ UNCHANGED <<result, err>>
    /\ UNCHANGED <<calls, awaits, pollSeq, roleOut, locationInfo, storage>>
    /\ UNCHANGED <<role, wf>>

CreateAzureVM ==
    \E cfg \in RoleInputs, dnsName \in DnsNames, location \in Locations :
        CreateAzureVM_Enter(cfg, dnsName, location)

\* Lines 63-70: submit the hosted-service creation and start awaiting it.
CreateAzureVM_CreateHostedService ==
    /\ pc = "CreateHostedService"
    /\ \/ /\ calls' = Append(calls, Call("CreateHostedService", TransportError))
          /\ err' = TransportError
          /\ Return(TransportError)
          /\ UNCHANGED <<awaits, pollSeq>>
       \/ /\ SubmitThenWait("CreateHostedService", "waitHostedService")
          /\ err' = nil
          /\ UNCHANGED result
    /\ UNCHANGED <<op, args, roleOut, locationInfo, storage>>
    /\ UNCHANGED <<role, wf>>

\* Lines 70-72: waitAsyncOperation returned; its error is not looked at.
CreateAzureVM_HostedServiceAwaited ==
    /\ pc = "waitHostedService"
    /\ AwaitReturned
    /\ pc' = IF args.cfg.UseCertAuth THEN "uploadServiceCert" ELSE "deploy"
    /\ UNCHANGED <<op, args, calls, awaits, pollSeq, err, result, roleOut,
                   locationInfo, storage>>
    /\ UNCHANGED <<role, wf>>

\* uploadServiceCert lines 623-640: read the certificate, submit it, await.
uploadServiceCert ==
    /\ pc = "uploadServiceCert"
    /\ \/ /\ err' = ReadFileError
          /\ pc' = "certReturned"
          /\ UNCHANGED <<calls, awaits, pollSeq>>
       \/ /\ calls' = Append(calls, Call("POST certificates", TransportError))
          /\ err' = TransportError
          /\ pc' = "certReturned"
          /\ UNCHANGED <<awaits, pollSeq>>
       \/ /\ SubmitThenWait("POST certificates", "waitCert")
          /\ UNCHANGED err
    /\ UNCHANGED <<op, args, result, roleOut, locationInfo, storage>>
    /\ UNCHANGED <<role, wf>>

\* Variant of uploadServiceCert_Return that drops the tracker's error, as the
\* other callers of waitAsyncOperation in this file do.
uploadServiceCert_Return_Dropped ==
    /\ pc = "waitCert"
    /\ AwaitReturned
    /\ err' = nil
    /\ pc' = "certReturned"
    /\ UNCHANGED <<op, args, calls, awaits, pollSeq, result, roleOut,
                   locationInfo, storage>>
    /\ UNCHANGED <<role, wf>>

\* uploadServiceCert lines 640-641: return the tracker's error.
uploadServiceCert_Return ==
    /\ pc = "waitCert"
    /\ AwaitReturned
    /\ err' = LastAwait.err
    /\ pc' = "certReturned"
    /\ UNCHANGED <<op, args, calls, awaits, pollSeq, result, roleOut,
                   locationInfo, storage>>
    /\ UNCHANGED <<role, wf>>

\* Variant of CreateAzureVM_CertUploaded that returns the certificate error
\* without deleting the hosted service.
CreateAzureVM_CertUploaded_NoDelete ==
    /\ pc = "certReturned"
    /\ IF err # nil
       THEN Return(err)
       ELSE pc' = "deploy" /\ UNCHANGED result
    /\ UNCHANGED <<op, args, calls, awaits, pollSeq, err, roleOut, locationInfo, storage>>
    /\ UNCHANGED <<role, wf>>

\* Lines 73-78: on a certificate error delete the hosted service (the result
\* of the deletion is dropped) and return the certificate error.
CreateAzureVM_CertUploaded ==
    /\ pc = "certReturned"
    /\ IF err # nil
       THEN /\ \E deleteErr \in {nil, TransportError} :
                 calls' = Append(calls, Call("DeleteHostedService", deleteErr))
            /\ Return(err)
       ELSE /\ pc' = "deploy"
            /\ UNCHANGED <<calls, result>>
    /\ UNCHANGED <<op, args, awaits, pollSeq, err, roleOut, locationInfo, storage>>
    /\ UNCHANGED <<role, wf>>

\* Lines 80-89 and 94: build and submit the deployment; a rejected submission
\* leads to the deletion of the hosted service, an accepted one is awaited.
\* (xml.Marshal of the VMDeployment struct does not fail.)
CreateAzureVM_Deploy ==
    /\ pc = "deploy"
    /\ \/ /\ calls' = Append(calls, Call("POST deployments", TransportError))
          /\ err' = TransportError
          /\ pc' = "deployFailed"
          /\ UNCHANGED <<awaits, pollSeq, result>>
       \/ /\ SubmitThenWait("POST deployments", "waitDeployment")
          /\ err' = nil
          /\ UNCHANGED result
    /\ UNCHANGED <<op, args, roleOut, locationInfo, storage>>
    /\ UNCHANGED <<role, wf>>

\* Variant of CreateAzureVM_DeployFailed that returns the error of the rejected
\* deployment without deleting the hosted service.
CreateAzureVM_DeployFailed_NoDelete ==
    /\ pc = "deployFailed"
    /\ Return(err)
    /\ UNCHANGED <<op, args, calls, awaits, pollSeq, err, roleOut, locationInfo, storage>>
    /\ UNCHANGED <<role, wf>>

\* Lines 89-92: the deployment was rejected; delete the hosted service (the
\* result of the deletion is dropped) and return the error of the deployment.
CreateAzureVM_DeployFailed ==
    /\ pc = "deployFailed"
    /\ \E deleteErr \in {nil, TransportError} :
         calls' = Append(calls, Call("DeleteHostedService", deleteErr))
    /\ Return(err)
    /\ UNCHANGED <<op, args, awaits, pollSeq, err, roleOut, locationInfo, storage>>
    /\ UNCHANGED <<role, wf>>

\* Lines 94-96: waitAsyncOperation returned; its error is not looked at.
CreateAzureVM_Return ==
    /\ pc = "waitDeployment"
    /\ AwaitReturned
    /\ Return(nil)
    /\ UNCHANGED <<op, args, calls, awaits, pollSeq, err, roleOut, locationInfo, storage>>
    /\ UNCHANGED <<role, wf>>

----------------------------------------------------------------------------
(* VmClient.StartRole / ShutdownRole / RestartRole / DeleteRole *)

RoleOps == {"StartRole", "ShutdownRole", "RestartRole", "DeleteRole"}

\* The first lines of each role operation: argument validation.
RoleOperation_Validate(cloudserviceName, deploymentName, roleName) ==
    IF Len(cloudserviceName) = 0 THEN paramNotSpecifiedError("cloudserviceName")
    ELSE IF Len(deploymentName) = 0 THEN paramNotSpecifiedError("deploymentName")
    ELSE IF Len(roleName) = 0 THEN paramNotSpecifiedError("roleName")
    ELSE nil

\* The request a role operation sends: a POST of the operation document to
\* azureOperationsURL, or for DeleteRole a DELETE of azureRoleURL.
RoleOperation_Request(o) == IF o = "DeleteRole" THEN "DELETE role" ELSE "POST operations"

RoleOperation ==
    /\ pc = "idle"
    /\ \E o \in RoleOps, cloudserviceName \in Names, deploymentName \in Names,
          roleName \in Names :
         /\ op' = o
         /\ args' = [NoArgs EXCEPT !.cloudserviceName = cloudserviceName,
                                   !.deploymentName = deploymentName,
                                   !.roleName = roleName]
         /\ LET e == RoleOperation_Validate(cloudserviceName, deploymentName, roleName) IN
              IF e # nil
              THEN Return(e) /\ err' = e
              ELSE pc' = "submitRoleOp" /\ UNCHANGED <<result, err>>
    /\ UNCHANGED <<calls, awaits, pollSeq, roleOut, locationInfo, storage>>
    /\ UNCHANGED <<role, wf>>

\* Submit the request; a rejected submission is returned, an accepted one awaited.
RoleOperation_Submit ==
    /\ pc = "submitRoleOp"
    /\ \/ /\ calls' = Append(calls, Call(RoleOperation_Request(op), TransportError))
          /\ err' = TransportError
          /\ Return(TransportError)
          /\ UNCHANGED <<awaits, pollSeq>>
       \/ /\ SubmitThenWait(RoleOperation_Request(op), "waitRoleOp")
          /\ err' = nil
          /\ UNCHANGED result
    /\ UNCHANGED <<op, args, roleOut, locationInfo, storage>>
    /\ UNCHANGED <<role, wf>>

\* waitAsyncOperation returned; its error is not looked at; return nil.
RoleOperation_Return ==
    /\ pc = "waitRoleOp"
    /\ AwaitReturned
    /\ Return(nil)
    /\ UNCHANGED <<op, args, calls, awaits, pollSeq, err, roleOut, locationInfo, storage>>
    /\ UNCHANGED <<role, wf>>

----------------------------------------------------------------------------
(* VmClient.DeleteVMDeployment *)

DeleteVMDeployment_Validate(cloudserviceName, deploymentName) ==
    IF Len(cloudserviceName) = 0 THEN paramNotSpecifiedError("cloudserviceName")
    ELSE IF Len(deploymentName) = 0 THEN paramNotSpecifiedError("deploymentName")
    ELSE nil

DeleteVMDeployment ==
    /\ pc = "idle"
    /\ \E cloudserviceName \in Names, deploymentName \in Names :
         /\ op' = "DeleteVMDeployment"
         /\ args' = [NoArgs EXCEPT !.cloudserviceName = cloudserviceName,
                                   !.deploymentName = deploymentName]
         /\ LET e == DeleteVMDeployment_Validate(cloudserviceName, deploymentName) IN
              IF e # nil
              THEN Return(e) /\ err' = e
              ELSE pc' = "submitDeleteDeployment" /\ UNCHANGED <<result, err>>
    /\ UNCHANGED <<calls, awaits, pollSeq, roleOut, locationInfo, storage>>
    /\ UNCHANGED <<role, wf>>

DeleteVMDeployment_Submit ==
    /\ pc = "submitDeleteDeployment"
    /\ \/ /\ calls' = Append(calls, Call("DELETE deployment", TransportError))
          /\ err' = TransportError
          /\ Return(TransportError)
          /\ UNCHANGED <<awaits, pollSeq>>
       \/ /\ SubmitThenWait("DELETE deployment", "waitDeleteDeployment")
          /\ err' = nil
          /\ UNCHANGED result
    /\ UNCHANGED <<op, args, roleOut, locationInfo, storage>>
    /\ UNCHANGED <<role, wf>>

\* waitAsyncOperation returned; its error is not looked at; return nil.
DeleteVMDeployment_Return ==
    /\ pc = "waitDeleteDeployment"
    /\ AwaitReturned
    /\ Return(nil)
    /\ UNCHANGED <<op, args, calls, awaits, pollSeq, err, roleOut, locationInfo, storage>>
    /\ UNCHANGED <<role, wf>>

----------------------------------------------------------------------------
(* VnetClient.SetVirtualNetworkConfiguration *)

\* Variant of SetVirtualNetworkConfiguration that does not return on a rejected
\* PUT and goes on to await the empty request id.
SetVirtualNetworkConfiguration_AwaitsAnyway ==
    /\ pc = "idle"
    /\ op' = "SetVirtualNetworkConfiguration"
    /\ args' = NoArgs
    /\ \/ /\ calls' = Append(calls, Call("PUT networking media", TransportError))
          /\ awaits' = Append(awaits, NewAwait(0))
          /\ pollSeq' = << >>
          /\ pc' = "waitVnet"
          /\ err' = TransportError
          /\ UNCHANGED result
       \/ /\ SubmitThenWait("PUT networking media", "waitVnet")
          /\ err' = nil
          /\ UNCHANGED result
    /\ UNCHANGED <<roleOut, locationInfo, storage>>
    /\ UNCHANGED <<role, wf>>

\* Lines 44-54: serialize and PUT the configuration (xml.Marshal of the
\* NetworkConfiguration struct does not fail).
SetVirtualNetworkConfiguration ==
    /\ pc = "idle"
    /\ op' = "SetVirtualNetworkConfiguration"
    /\ args' = NoArgs
    /\ \/ /\ calls' = Append(calls, Call("PUT networking media", TransportError))
          /\ err' = TransportError
          /\ Return(TransportError)
          /\ UNCHANGED <<awaits, pollSeq>>
       \/ /\ SubmitThenWait("PUT networking media", "waitVnet")
          /\ err' = nil
          /\ UNCHANGED result
    /\ UNCHANGED <<roleOut, locationInfo, storage>>
    /\ UNCHANGED <<role, wf>>

\* Variant of SetVirtualNetworkConfiguration_Return that drops the tracker's
\* error and returns nil.
SetVirtualNetworkConfiguration_Return_Dropped ==
    /\ pc = "waitVnet"
    /\ AwaitReturned
    /\ err' = nil
    /\ Return(nil)
    /\ UNCHANGED <<op, args, calls, awaits, pollSeq, roleOut, locationInfo, storage>>
    /\ UNCHANGED <<role, wf>>

\* Lines 56-57: return the tracker's error.
SetVirtualNetworkConfiguration_Return ==
    /\ pc = "waitVnet"
    /\ AwaitReturned
    /\ err' = LastAwait.err
    /\ Return(LastAwait.err)
    /\ UNCHANGED <<op, args, calls, awaits, pollSeq, roleOut, locationInfo, storage>>
    /\ UNCHANGED <<role, wf>>

----------------------------------------------------------------------------
(* VmClient.CreateAzureVMConfiguration *)

\* Lines 99-116: argument validation.
CreateAzureVMConfiguration_Validate(dnsName, instanceSize, imageName, location) ==
    IF Len(dnsName) = 0 THEN paramNotSpecifiedError("dnsName")
    ELSE IF Len(instanceSize) = 0 THEN paramNotSpecifiedError("instanceSize")
    ELSE IF Len(imageName) = 0 THEN paramNotSpecifiedError("imageName")
    ELSE IF Len(location) = 0 THEN paramNotSpecifiedError("location")
    ELSE verifyDNSname(dnsName)

CreateAzureVMConfiguration ==
    /\ pc = "idle"
    /\ \E dnsName \in DnsNames, instanceSize \in InstanceSizes, imageName \in ImageNames,
          location \in Locations :
         /\ op' = "CreateAzureVMConfiguration"
         /\ args' = [NoArgs EXCEPT !.dnsName = dnsName, !.instanceSize = instanceSize,
                                   !.imageName = imageName, !.location = location]
         /\ LET e == CreateAzureVMConfiguration_Validate(dnsName, instanceSize,
                                                         imageName, location) IN
              IF e # nil
              THEN Return(e) /\ err' = e
              ELSE pc' = "GetLocation" /\ UNCHANGED <<result, err>>
    /\ UNCHANGED <<calls, awaits, pollSeq, roleOut, locationInfo, storage>>
    /\ UNCHANGED <<role, wf>>

\* Variant of isInstanceSizeAvailableInLocation that never looks at the sizes.
isInstanceSizeAvailableInLocation_AnySize(sizes, instanceSize) ==
    IF Len(instanceSize) = 0
    THEN [available |-> FALSE, err |-> paramNotSpecifiedError("vmSize")]
    ELSE [available |-> TRUE, err |-> nil]

\* Lines 765-777; sizes is location.VirtualMachineRoleSizes.
isInstanceSizeAvailableInLocation(sizes, instanceSize) ==
    IF Len(instanceSize) = 0
    THEN [available |-> FALSE, err |-> paramNotSpecifiedError("vmSize")]
    ELSE [available |-> instanceSize \in sizes, err |-> nil]

\* Lines 118-130: look the location up and check the size against it.
CreateAzureVMConfiguration_GetLocation ==
    /\ pc = "GetLocation"
    /\ \/ /\ calls' = Append(calls, Call("GetLocation", TransportError))
          /\ err' = TransportError
          /\ Return(TransportError)
          /\ UNCHANGED locationInfo
       \/ \E sizes \in SUBSET RoleSizes :
            /\ calls' = Append(calls, Call("GetLocation", nil))
            /\ locationInfo' = sizes
            /\ LET r == isInstanceSizeAvailableInLocation(sizes, args.instanceSize)
                   mismatch == invalidRoleSizeInLocationError(args.instanceSize,
                                                              args.location)
               IN IF r.err # nil
                  THEN Return(r.err) /\ err' = r.err
                  ELSE IF r.available = FALSE
                  THEN Return(mismatch) /\ err' = mismatch
                  ELSE pc' = "ResolveImageName" /\ err' = nil /\ UNCHANGED result
    /\ UNCHANGED <<op, args, awaits, pollSeq, roleOut, storage>>
    /\ UNCHANGED <<role, wf>>

\* createAzureVMRole line 535 and createOSVirtualHardDisk lines 543-549.
createOSVirtualHardDisk ==
    /\ pc = "ResolveImageName"
    /\ \/ /\ calls' = Append(calls, Call("ResolveImageName", TransportError))
          /\ err' = TransportError
          /\ Return(TransportError)
       \/ /\ calls' = Append(calls, Call("ResolveImageName", nil))
          /\ err' = nil
          /\ pc' = "GetStorageServiceByLocation"
          /\ UNCHANGED result
    /\ UNCHANGED <<op, args, awaits, pollSeq, roleOut, locationInfo, storage>>
    /\ UNCHANGED <<role, wf>>

\* Variant of getVHDMediaLink_Lookup that creates a storage service whatever
\* the lookup found.
getVHDMediaLink_Lookup_AlwaysCreate ==
    /\ pc = "GetStorageServiceByLocation"
    /\ \/ /\ calls' = Append(calls, Call("GetStorageServiceByLocation", TransportError))
          /\ err' = TransportError
          /\ Return(TransportError)
       \/ /\ calls' = Append(calls, Call("GetStorageServiceByLocation", nil))
          /\ err' = nil
          /\ pc' = "CreateStorageService"
          /\ UNCHANGED result
    /\ UNCHANGED <<op, args, awaits, pollSeq, roleOut, locationInfo, storage>>
    /\ UNCHANGED <<role, wf>>

\* getVHDMediaLink lines 560-568: look the storage service of the location up.
getVHDMediaLink_Lookup ==
    /\ pc = "GetStorageServiceByLocation"
    /\ \/ /\ calls' = Append(calls, Call("GetStorageServiceByLocation", TransportError))
          /\ err' = TransportError
          /\ Return(TransportError)
       \/ /\ calls' = Append(calls, Call("GetStorageServiceByLocation", nil))
          /\ err' = nil
          /\ pc' = IF args.location \in storage THEN "GetBlobEndpoint"
                                                ELSE "CreateStorageService"
          /\ UNCHANGED result
    /\ UNCHANGED <<op, args, awaits, pollSeq, roleOut, locationInfo, storage>>
    /\ UNCHANGED <<role, wf>>

\* getVHDMediaLink lines 568-580: no service found, create one.
getVHDMediaLink_Create ==
    /\ pc = "CreateStorageService"
    /\ \/ /\ err' = UUIDError
          /\ Return(UUIDError)
          /\ UNCHANGED <<calls, storage>>
       \/ /\ calls' = Append(calls, Call("CreateStorageService", TransportError))
          /\ err' = TransportError
          /\ Return(TransportError)
          /\ UNCHANGED storage
       \/ /\ calls' = Append(calls, Call("CreateStorageService", nil))
          /\ storage' = storage \cup {args.location}
          /\ err' = nil
          /\ pc' = "GetBlobEndpoint"
          /\ UNCHANGED result
    /\ UNCHANGED <<op, args, awaits, pollSeq, roleOut, locationInfo>>
    /\ UNCHANGED <<role, wf>>

\* getVHDMediaLink lines 582-588, then createOSVirtualHardDisk, createAzureVMRole
\* and CreateAzureVMConfiguration (lines 132-137) return the role.
getVHDMediaLink_Endpoint ==
    /\ pc = "GetBlobEndpoint"
    /\ \/ /\ calls' = Append(calls, Call("GetBlobEndpoint", TransportError))
          /\ err' = TransportError
          /\ Return(TransportError)
          /\ UNCHANGED roleOut
       \/ /\ calls' = Append(calls, Call("GetBlobEndpoint", nil))
          /\ err' = nil
          /\ roleOut' = [NilRole EXCEPT !.IsNil = FALSE, !.RoleName = args.dnsName,
                                        !.RoleSize = args.instanceSize,
                                        !.SourceImageName = args.imageName]
          /\ Return(nil)
    /\ UNCHANGED <<op, args, awaits, pollSeq, locationInfo, storage>>
    /\ UNCHANGED <<role, wf>>

----------------------------------------------------------------------------
(* Provisioning, network and extension configuration of a Role              *)

\* Error constants, lines 28-32.
provisioningConfDoesNotExistsError == Error("provisioningConfDoesNotExistsError", << >>)

invalidCertExtensionError(certPath, extension) ==
    Error("invalidCertExtensionError", <<certPath, extension>>)

invalidOSError == Error("invalidOSError", << >>)

invalidPasswordLengthError == Error("invalidPasswordLengthError", << >>)

invalidPasswordError == Error("invalidPasswordError", << >>)

\* pem.Decode finding no PEM block in the certificate file.
PemDecodeError == Error("PemDecodeError", << >>)

osLinux == "Linux"

osWindows == "Windows"

dockerPublicConfigVersion == 2

\* A password is the sequence of its characters (all of them ASCII, so that
\* len(password) is their number).
UpperChars == {"A", "B", "D", "P"}

LowerChars == {"a", "b", "c", "d", "e", "o", "r", "s", "w"}

NumericChars == {"1", "9"}

SymbolChars == {"@"}

\* The range tables of verifyPassword, lines 750-754, restricted to the
\* characters above (unicode.Title and the non-digit numbers have no ASCII
\* member).
PasswordClasses ==
    [c \in {"upper case", "lower case", "numeric"} |->
        CASE c = "upper case" -> UpperChars
          [] c = "lower case" -> LowerChars
          [] c = "numeric" -> NumericChars]

\* The orders in which a range over the map of classes can visit its keys.
ClassOrders ==
    {o \in [1..3 -> DOMAIN PasswordClasses] : \A i, j \in 1..3 : o[i] = o[j] => i = j}

\* Lines 749-761: the loop over the classes in the order the map yields them;
\* the first class without a character in the password ends it.
RECURSIVE verifyPassword_Classes(_, _, _)
verifyPassword_Classes(password, order, i) ==
    IF i > Len(order) THEN nil
    ELSE IF \E k \in 1..Len(password) : password[k] \in PasswordClasses[order[i]]
         THEN verifyPassword_Classes(password, order, i + 1)
         ELSE invalidPasswordError

\* Variant of verifyPassword that does not look for a numeric character.
verifyPassword_NoNumeric(password, order) ==
    IF Len(password) < 4 \/ Len(password) > 30 THEN invalidPasswordLengthError
    ELSE verifyPassword_Classes(password, SelectSeq(order, LAMBDA c : c # "numeric"), 1)

\* verifyPassword, lines 744-763.
verifyPassword(password, order) ==
    IF Len(password) < 4 \/ Len(password) > 30 THEN invalidPasswordLengthError
    ELSE verifyPassword_Classes(password, order, 1)

\* The dummy password of line 598, "P@ssword1".
DummyPassword == <<"P", "@", "s", "s", "w", "o", "r", "d", "1">>

\* Certificate paths the caller passes, and strings.Split(certPath, ".") of
\* the non-empty ones.
CertPaths == {"", "cert.pem", "cert.pfx"}

CertParts == ("cert.pem" :> <<"cert", "pem">>) @@ ("cert.pfx" :> <<"cert", "pfx">>)

\* What is found at a certificate path: ioutil.ReadFile fails, or the file
\* holds no PEM block, or a PEM block with the bytes der.
CertFiles ==
    {[readErr |-> TRUE, pem |-> FALSE, der |-> ""],
     [readErr |-> FALSE, pem |-> FALSE, der |-> ""],
     [readErr |-> FALSE, pem |-> TRUE, der |-> "der1"]}

\* fmt.Sprintf("%X", sha1.Sum(bytes)) of the PEM block of CertFiles.
Sha1Hex == "der1" :> "F4138193F2F96E272A4F82EE5D95F8336267E65C"

\* checkServiceCertExtension, lines 697-706.
checkServiceCertExtension(certPath) ==
    LET certParts == CertParts[certPath]
        certExt == certParts[Len(certParts)]
    IN  IF certExt # "pem" THEN invalidCertExtensionError(certPath, "pem") ELSE nil

\* getServiceCertFingerprint, lines 681-695.
getServiceCertFingerprint(file) ==
    IF file.readErr THEN [value |-> "", err |-> ReadFileError]
    ELSE IF ~file.pem THEN [value |-> "", err |-> PemDecodeError]
    ELSE [value |-> Sha1Hex[file.der], err |-> nil]

\* createSshConfig, lines 659-678: the public keys of the SSH configuration.
createSshConfig(certPath, userName, file) ==
    LET extErr == checkServiceCertExtension(certPath)
        fingerprint == getServiceCertFingerprint(file)
    IN  IF extErr # nil THEN [value |-> << >>, err |-> extErr]
        ELSE IF fingerprint.err # nil THEN [value |-> << >>, err |-> fingerprint.err]
        ELSE [value |-> << [Fingerprint |-> fingerprint.value,
                            Path |-> <<"/home/", userName, "/.ssh/authorized_keys">>] >>,
              err |-> nil]

\* ConfigurationSet{}.
EmptyConfigurationSet ==
    [ConfigurationSetType |-> "", DisableSshPasswordAuthentication |-> FALSE,
     HostName |-> "", UserName |-> "", UserPassword |-> << >>, SSH |-> << >>,
     InputEndpoints |-> << >>]

\* Variant of createLinuxProvisioningConfig that keeps password authentication
\* enabled when it substitutes the dummy password.
createLinuxProvisioningConfig_NeverDisabled(dnsName, userName, userPassword, certPath, order, file) ==
    LET password == IF Len(userPassword) = 0 THEN DummyPassword ELSE userPassword
        pwErr == IF Len(userPassword) = 0 THEN nil ELSE verifyPassword(userPassword, order)
        provisioningConfig ==
            [EmptyConfigurationSet EXCEPT
                !.DisableSshPasswordAuthentication = FALSE,
                !.ConfigurationSetType = "LinuxProvisioningConfiguration",
                !.HostName = dnsName,
                !.UserName = userName,
                !.UserPassword = password]
        ssh == createSshConfig(certPath, userName, file)
    IN  IF pwErr # nil THEN [value |-> EmptyConfigurationSet, err |-> pwErr]
        ELSE IF Len(certPath) > 0
             THEN [value |-> [provisioningConfig EXCEPT !.SSH = ssh.value], err |-> ssh.err]
             ELSE [value |-> provisioningConfig, err |-> nil]

\* createLinuxProvisioningConfig, lines 591-621.
createLinuxProvisioningConfig(dnsName, userName, userPassword, certPath, order, file) ==
    LET disableSshPasswordAuthentication == Len(userPassword) = 0
        password == IF Len(userPassword) = 0 THEN DummyPassword ELSE userPassword
        pwErr == IF Len(userPassword) = 0 THEN nil ELSE verifyPassword(userPassword, order)
        provisioningConfig ==
            [EmptyConfigurationSet EXCEPT
                !.DisableSshPasswordAuthentication = disableSshPasswordAuthentication,
                !.ConfigurationSetType = "LinuxProvisioningConfiguration",
                !.HostName = dnsName,
                !.UserName = userName,
                !.UserPassword = password]
        ssh == createSshConfig(certPath, userName, file)
    IN  IF pwErr # nil THEN [value |-> EmptyConfigurationSet, err |-> pwErr]
        ELSE IF Len(certPath) > 0
             THEN [value |-> [provisioningConfig EXCEPT !.SSH = ssh.value], err |-> ssh.err]
             ELSE [value |-> provisioningConfig, err |-> nil]

\* createEndpoint, lines 726-734.
createEndpoint(name, protocol, extertalPort, internalPort) ==
    [Name |-> name, Protocol |-> protocol, Port |-> extertalPort, LocalPort |-> internalPort]

\* InputEndpoint{}.
EmptyEndpoint == createEndpoint("", "", 0, 0)

\* Variant of createNetworkConfig that knows Windows only.
createNetworkConfig_NoLinux(os, sshPort) ==
    LET networkConfig ==
            [EmptyConfigurationSet EXCEPT !.ConfigurationSetType = "NetworkConfiguration"]
    IN  IF os = osWindows
        THEN [value |-> [networkConfig EXCEPT !.InputEndpoints = <<EmptyEndpoint>>],
              err |-> nil]
        ELSE [value |-> networkConfig, err |-> invalidOSError]

\* createNetworkConfig, lines 708-724.
createNetworkConfig(os, sshPort) ==
    LET networkConfig ==
            [EmptyConfigurationSet EXCEPT !.ConfigurationSetType = "NetworkConfiguration"]
    IN  IF os = osLinux
        THEN [value |-> [networkConfig EXCEPT
                            !.InputEndpoints = <<createEndpoint("ssh", "tcp", sshPort, 22)>>],
              err |-> nil]
        ELSE IF os = osWindows
        THEN [value |-> [networkConfig EXCEPT !.InputEndpoints = <<EmptyEndpoint>>],
              err |-> nil]
        ELSE [value |-> networkConfig, err |-> invalidOSError]

\* addDockerPort, lines 500-515: the configuration sets after the call (the
\* elements of the caller's slice are changed in place), and the error.
addDockerPort(configurationSets, dockerPort) ==
    IF Len(configurationSets) = 0
    THEN [value |-> configurationSets, err |-> provisioningConfDoesNotExistsError]
    ELSE [value |->
            [i \in 1..Len(configurationSets) |->
                IF configurationSets[i].ConfigurationSetType # "NetworkConfiguration"
                THEN configurationSets[i]
                ELSE [configurationSets[i] EXCEPT
                        !.InputEndpoints =
                            Append(@, createEndpoint("docker", "tcp", dockerPort, dockerPort))]],
          err |-> nil]

\* base64.StdEncoding.EncodeToString and json.Marshal, as documents.
Base64(value) == <<"base64", value>>

\* createDockerPublicConfig, lines 490-498.
createDockerPublicConfig(dockerPort) ==
    <<"{DockerPort:", dockerPort, ",Version:", dockerPublicConfigVersion, "}">>

\* The result of a builder: the Role the argument points to after the call,
\* the *Role returned, and the error returned.
BuilderResult(cfg, ret, e) == [cfg |-> cfg, ret |-> ret, err |-> e]

\* Variant of AddAzureLinuxProvisioningConfig that appends the two new
\* configuration sets to those the role already has.
AddAzureLinuxProvisioningConfig_Apply_Accumulates(cfg, userName, password, certPath, sshPort, order, file) ==
    IF cfg.IsNil THEN BuilderResult(cfg, NilRole, paramNotSpecifiedError("azureVMConfiguration"))
    ELSE IF Len(userName) = 0 THEN BuilderResult(cfg, NilRole, paramNotSpecifiedError("userName"))
    ELSE
      LET provisioningConfig ==
              createLinuxProvisioningConfig(cfg.RoleName, userName, password, certPath,
                                            order, file)
          networkConfig == createNetworkConfig(osLinux, sshPort)
          configurationSets ==
              cfg.ConfigurationSets \o <<provisioningConfig.value, networkConfig.value>>
          withSets == [cfg EXCEPT !.ConfigurationSets = configurationSets]
          withCert == IF Len(certPath) > 0
                      THEN [withSets EXCEPT !.UseCertAuth = TRUE, !.CertPath = certPath]
                      ELSE withSets
      IN  IF provisioningConfig.err # nil
          THEN BuilderResult(cfg, NilRole, provisioningConfig.err)
          ELSE IF networkConfig.err # nil
          THEN BuilderResult(cfg, NilRole, provisioningConfig.err)
          ELSE BuilderResult(withCert, withCert, nil)

\* AddAzureLinuxProvisioningConfig, lines 140-171.
AddAzureLinuxProvisioningConfig_Apply(cfg, userName, password, certPath, sshPort, order, file) ==
    IF cfg.IsNil THEN BuilderResult(cfg, NilRole, paramNotSpecifiedError("azureVMConfiguration"))
    ELSE IF Len(userName) = 0 THEN BuilderResult(cfg, NilRole, paramNotSpecifiedError("userName"))
    ELSE
      LET provisioningConfig ==
              createLinuxProvisioningConfig(cfg.RoleName, userName, password, certPath,
                                            order, file)
          networkConfig == createNetworkConfig(osLinux, sshPort)
          configurationSets == <<provisioningConfig.value, networkConfig.value>>
          withSets == [cfg EXCEPT !.ConfigurationSets = configurationSets]
          withCert == IF Len(certPath) > 0
                      THEN [withSets EXCEPT !.UseCertAuth = TRUE, !.CertPath = certPath]
                      ELSE withSets
      IN  IF provisioningConfig.err # nil
          THEN BuilderResult(cfg, NilRole, provisioningConfig.err)
          ELSE IF networkConfig.err # nil
          THEN BuilderResult(cfg, NilRole, provisioningConfig.err)
          ELSE BuilderResult(withCert, withCert, nil)

\* SetAzureVMExtension, lines 173-218.
SetAzureVMExtension_Apply(cfg, name, publisher, version, referenceName, state, publicConfigurationValue, privateConfigurationValue) ==
    IF cfg.IsNil THEN BuilderResult(cfg, NilRole, paramNotSpecifiedError("azureVMConfiguration"))
    ELSE IF Len(name) = 0 THEN BuilderResult(cfg, NilRole, paramNotSpecifiedError("name"))
    ELSE IF Len(publisher) = 0
    THEN BuilderResult(cfg, NilRole, paramNotSpecifiedError("publisher"))
    ELSE IF Len(version) = 0 THEN BuilderResult(cfg, NilRole, paramNotSpecifiedError("version"))
    ELSE IF Len(referenceName) = 0
    THEN BuilderResult(cfg, NilRole, paramNotSpecifiedError("referenceName"))
    ELSE
      LET privateConfig ==
              IF Len(privateConfigurationValue) > 0
              THEN << [Key |-> "ignored", Value |-> Base64(privateConfigurationValue),
                       Type |-> "Private"] >>
              ELSE << >>
          publicConfig ==
              IF Len(publicConfigurationValue) > 0
              THEN << [Key |-> "ignored", Value |-> Base64(publicConfigurationValue),
                       Type |-> "Public"] >>
              ELSE << >>
          extension ==
              [Name |-> name, Publisher |-> publisher, Version |-> version,
               ReferenceName |-> referenceName, State |-> state,
               ResourceExtensionParameterValues |-> privateConfig \o publicConfig]
          after == [cfg EXCEPT !.ResourceExtensionReferences = Append(@, extension)]
      IN  BuilderResult(after, after, nil)

\* SetAzureDockerVMExtension, lines 220-243.
SetAzureDockerVMExtension_Apply(cfg, dockerPort, version) ==
    IF cfg.IsNil THEN BuilderResult(cfg, NilRole, paramNotSpecifiedError("azureVMConfiguration"))
    ELSE
      LET v == IF Len(version) = 0 THEN "0.3" ELSE version
          ported == addDockerPort(cfg.ConfigurationSets, dockerPort)
          withPort == [cfg EXCEPT !.ConfigurationSets = ported.value]
          set == SetAzureVMExtension_Apply(withPort, "DockerExtension",
                                           "MSOpenTech.Extensions", v, "DockerExtension",
                                           "enable", createDockerPublicConfig(dockerPort),
                                           <<"{}">>)
      IN  IF ported.err # nil THEN BuilderResult(cfg, NilRole, ported.err)
          ELSE BuilderResult(set.cfg, set.ret, nil)

----------------------------------------------------------------------------
(* The builders as operations of a caller that holds one Role, and           *)
(* CreateAzureVM of that Role                                                *)

\* SetAzureVMExtension and SetAzureDockerVMExtension append to the extension
\* references of the Role without any limit; the caller modelled here stops
\* calling them on a Role that has this many.
MaxExtensions == 2

UserNames == {"", "user"}

\* "", "abcD1" and "abcde".
BuilderPasswords == {<< >>, <<"a", "b", "c", "D", "1">>, <<"a", "b", "c", "d", "e">>}

SshPorts == {22}

DockerPorts == {2375}

Versions == {"", "0.4"}

\* Public and private configuration values: "" and "{}".
ConfigurationValues == {<< >>, <<"{}">>}

\* The Role the caller passes: the one it holds, or no Role at all.
CfgInputs == {NilRole, role}

\* The builder returned r: cfg was changed where cfg points, r.ret and r.err
\* are handed back.
BuilderReturn(cfg, r) ==
    /\ role' = IF cfg.IsNil THEN role ELSE r.cfg
    /\ roleOut' = r.ret
    /\ err' = r.err
    /\ Return(r.err)
    /\ UNCHANGED <<calls, awaits, pollSeq, locationInfo, storage, wf>>

AddAzureLinuxProvisioningConfig ==
    /\ pc = "idle"
    /\ \E cfg \in CfgInputs, userName \in UserNames, password \in BuilderPasswords,
          certPath \in CertPaths, sshPort \in SshPorts, order \in ClassOrders,
          file \in CertFiles :
         /\ op' = "AddAzureLinuxProvisioningConfig"
         /\ args' = [NoArgs EXCEPT !.cfg = cfg, !.userName = userName,
                                   !.password = password, !.certPath = certPath]
         /\ BuilderReturn(cfg, AddAzureLinuxProvisioningConfig_Apply(
                                   cfg, userName, password, certPath, sshPort, order, file))

SetAzureVMExtension ==
    /\ pc = "idle"
    /\ Len(role.ResourceExtensionReferences) < MaxExtensions
    /\ \E cfg \in CfgInputs, name \in Names, publisher \in Names, version \in Versions,
          referenceName \in Names, publicConfigurationValue \in ConfigurationValues,
          privateConfigurationValue \in ConfigurationValues :
         /\ op' = "SetAzureVMExtension"
         /\ args' = [NoArgs EXCEPT !.cfg = cfg, !.name = name, !.version = version]
         /\ BuilderReturn(cfg, SetAzureVMExtension_Apply(
                                   cfg, name, publisher, version, referenceName, "enable",
                                   publicConfigurationValue, privateConfigurationValue))

SetAzureDockerVMExtension ==
    /\ pc = "idle"
    /\ Len(role.ResourceExtensionReferences) < MaxExtensions
    /\ \E cfg \in CfgInputs, dockerPort \in DockerPorts, version \in Versions :
         /\ op' = "SetAzureDockerVMExtension"
         /\ args' = [NoArgs EXCEPT !.cfg = cfg, !.dockerPort = dockerPort,
                                   !.version = version]
         /\ BuilderReturn(cfg, SetAzureDockerVMExtension_Apply(cfg, dockerPort, version))

\* CreateAzureVM of the Role the caller has built.
CreateAzureVM_OfRole == CreateAzureVM_Enter(role, "abc", "West US")

\* The caller holds the Role CreateAzureVMConfiguration("abc", "Small", "img",
\* "West US") returned.
InitBuilder ==
    /\ pc = "idle"
    /\ op = "none"
    /\ args = NoArgs
    /\ calls = << >>
    /\ awaits = << >>
    /\ pollSeq = << >>
    /\ err = nil
    /\ result = nil
    /\ roleOut = NilRole
    /\ locationInfo = {}
    /\ storage = {"West US"}
    /\ role = Role("abc", FALSE, "")
    /\ wf = << >>

----------------------------------------------------------------------------
(* verifyPassword on its own                                                 *)

\* Every password of at most this many characters is tried.
MaxShortPassword == 4

PasswordAlphabet == {"a", "B", "1", "@"}

ShortPasswords == UNION {[1..n -> PasswordAlphabet] : n \in 0..MaxShortPassword}

\* password followed by n times the character c.
Pad(password, c, n) == password \o [i \in 1..n |-> c]

\* Passwords of 30 and of 31 characters.
LongPasswords ==
    {Pad(p, c, n - 2) : p \in [1..2 -> PasswordAlphabet], c \in {"a", "1"}, n \in {30, 31}}

Passwords == ShortPasswords \cup LongPasswords

\* verifyPassword(password), the map of classes being visited in any order.
verifyPassword_Call ==
    /\ pc = "idle"
    /\ \E password \in Passwords, order \in ClassOrders :
         /\ op' = "verifyPassword"
         /\ args' = [NoArgs EXCEPT !.password = password]
         /\ err' = verifyPassword(password, order)
         /\ Return(verifyPassword(password, order))
    /\ UNCHANGED <<calls, awaits, pollSeq, roleOut, locationInfo, storage, role, wf>>

----------------------------------------------------------------------------
(* Two callers, each running CreateAzureVMConfiguration and then             *)
(* CreateAzureVM of the Role it got, for its own DNS name.  The VmClient has *)
(* no field an operation writes; what the callers share is the remote state. *)

Workflows == {1, 2}

\* The DNS name (and hosted service, deployment and role name) of a workflow.
WorkflowDnsName == <<"abc", "abd">>

WorkflowLocations == {"West US"}

\* A workflow: its position, its arguments, the storage services that existed
\* when it began, its remote calls so far, what its lookup of the storage
\* service found, its waitAsyncOperation in progress, and its result.
NewWorkflow(w) ==
    [pc |-> "idle", dnsName |-> WorkflowDnsName[w], location |-> "", start |-> {},
     calls |-> << >>, found |-> "", await |-> NewAwait(0), result |-> nil]

WfCall(name, e) == [call |-> name, err |-> e]

\* Workflow w moves to position next having issued the remote call name with
\* the outcome e.
WfStep(w, next, name, e) ==
    wf' = [wf EXCEPT ![w].pc = next, ![w].calls = Append(@, WfCall(name, e)),
                     ![w].result = e]

\* A submission of workflow w was accepted and is awaited.
WfSubmitThenWait(w, next, name) ==
    wf' = [wf EXCEPT ![w].pc = next, ![w].calls = Append(@, WfCall(name, nil)),
                     ![w].await = NewAwait(Len(wf[w].calls) + 1)]

WfFrame == UNCHANGED <<pc, op, args, calls, awaits, pollSeq, err, result, roleOut,
                       locationInfo, role>>

\* CreateAzureVMConfiguration lines 99-116.
Wf_CreateAzureVMConfiguration(w) ==
    /\ wf[w].pc = "idle"
    /\ \E location \in WorkflowLocations :
         LET e == CreateAzureVMConfiguration_Validate(wf[w].dnsName, "Small", "img",
                                                      location)
         IN  wf' = [wf EXCEPT ![w].pc = IF e # nil THEN "done" ELSE "GetLocation",
                              ![w].location = location,
                              ![w].start = storage,
                              ![w].result = e]
    /\ UNCHANGED storage
    /\ WfFrame

\* CreateAzureVMConfiguration lines 118-130.
Wf_GetLocation(w) ==
    /\ wf[w].pc = "GetLocation"
    /\ \/ WfStep(w, "done", "GetLocation", TransportError)
       \/ \E sizes \in SUBSET RoleSizes :
            LET r == isInstanceSizeAvailableInLocation(sizes, "Small") IN
            IF r.err # nil
            THEN wf' = [wf EXCEPT ![w].pc = "done",
                                  ![w].calls = Append(@, WfCall("GetLocation", nil)),
                                  ![w].result = r.err]
            ELSE IF r.available = FALSE
            THEN wf' = [wf EXCEPT ![w].pc = "done",
                                  ![w].calls = Append(@, WfCall("GetLocation", nil)),
                                  ![w].result =
                                      invalidRoleSizeInLocationError("Small",
                                                                     wf[w].location)]
            ELSE WfStep(w, "ResolveImageName", "GetLocation", nil)
    /\ UNCHANGED storage
    /\ WfFrame

\* createOSVirtualHardDisk lines 543-549.
Wf_createOSVirtualHardDisk(w) ==
    /\ wf[w].pc = "ResolveImageName"
    /\ \/ WfStep(w, "done", "ResolveImageName", TransportError)
       \/ WfStep(w, "GetStorageServiceByLocation", "ResolveImageName", nil)
    /\ UNCHANGED storage
    /\ WfFrame

\* getVHDMediaLink lines 560-568.
Wf_getVHDMediaLink_Lookup(w) ==
    /\ wf[w].pc = "GetStorageServiceByLocation"
    /\ \/ WfStep(w, "done", "GetStorageServiceByLocation", TransportError)
       \/ wf' = [wf EXCEPT
                    ![w].pc = IF wf[w].location \in storage
                              THEN "GetBlobEndpoint" ELSE "CreateStorageService",
                    ![w].calls = Append(@, WfCall("GetStorageServiceByLocation", nil)),
                    ![w].found = IF wf[w].location \in storage THEN "service" ELSE "nil"]
    /\ UNCHANGED storage
    /\ WfFrame

\* getVHDMediaLink lines 568-580: the new service has a name made of a fresh
\* UUID, so the remote accepts it whether or not the location has one by now.
Wf_getVHDMediaLink_Create(w) ==
    /\ wf[w].pc = "CreateStorageService"
    /\ \/ /\ wf' = [wf EXCEPT ![w].pc = "done", ![w].result = UUIDError]
          /\ UNCHANGED storage
       \/ /\ WfStep(w, "done", "CreateStorageService", TransportError)
          /\ UNCHANGED storage
       \/ /\ WfStep(w, "GetBlobEndpoint", "CreateStorageService", nil)
          /\ storage' = storage \cup {wf[w].location}
    /\ WfFrame

\* getVHDMediaLink lines 582-588 and the return of CreateAzureVMConfiguration.
Wf_getVHDMediaLink_Endpoint(w) ==
    /\ wf[w].pc = "GetBlobEndpoint"
    /\ \/ WfStep(w, "done", "GetBlobEndpoint", TransportError)
       \/ WfStep(w, "configured", "GetBlobEndpoint", nil)
    /\ UNCHANGED storage
    /\ WfFrame

\* CreateAzureVM lines 47-61, of the Role CreateAzureVMConfiguration returned.
Wf_CreateAzureVM(w) ==
    /\ wf[w].pc = "configured"
    /\ LET e == CreateAzureVM_Validate(Role(wf[w].dnsName, FALSE, ""), wf[w].dnsName,
                                       wf[w].location)
       IN  wf' = [wf EXCEPT ![w].pc = IF e # nil THEN "done" ELSE "CreateHostedService",
                            ![w].result = e]
    /\ UNCHANGED storage
    /\ WfFrame

\* CreateAzureVM lines 63-70.
Wf_CreateHostedService(w) ==
    /\ wf[w].pc = "CreateHostedService"
    /\ \/ WfStep(w, "done", "CreateHostedService", TransportError)
       \/ WfSubmitThenWait(w, "waitHostedService", "CreateHostedService")
    /\ UNCHANGED storage
    /\ WfFrame

\* One status poll of the await of workflow w.
Wf_Poll(w) ==
    /\ wf[w].pc \in {"waitHostedService", "waitDeployment"}
    /\ ~wf[w].await.done
    /\ \E answer \in PollAnswers :
         wf' = [wf EXCEPT ![w].await = waitAsyncOperation(@, answer)]
    /\ UNCHANGED storage
    /\ WfFrame

\* CreateAzureVM lines 70-72; the Role has UseCertAuth = false.
Wf_HostedServiceAwaited(w) ==
    /\ wf[w].pc = "waitHostedService"
    /\ wf[w].await.done
    /\ wf' = [wf EXCEPT ![w].pc = "deploy"]
    /\ UNCHANGED storage
    /\ WfFrame

\* CreateAzureVM lines 80-89 and 94.
Wf_Deploy(w) ==
    /\ wf[w].pc = "deploy"
    /\ \/ wf' = [wf EXCEPT ![w].pc = "deployFailed",
                            ![w].calls = Append(@, WfCall("POST deployments",
                                                          TransportError))]
       \/ WfSubmitThenWait(w, "waitDeployment", "POST deployments")
    /\ UNCHANGED storage
    /\ WfFrame

\* CreateAzureVM lines 89-92: delete the hosted service and return the error
\* of the rejected deployment.
Wf_DeployFailed(w) ==
    /\ wf[w].pc = "deployFailed"
    /\ \E e \in {nil, TransportError} :
         wf' = [wf EXCEPT ![w].pc = "done",
                          ![w].calls = Append(@, WfCall("DeleteHostedService", e)),
                          ![w].result = TransportError]
    /\ UNCHANGED storage
    /\ WfFrame

\* CreateAzureVM lines 94-96.
Wf_Return(w) ==
    /\ wf[w].pc = "waitDeployment"
    /\ wf[w].await.done
    /\ wf' = [wf EXCEPT ![w].pc = "done", ![w].result = nil]
    /\ UNCHANGED storage
    /\ WfFrame

InitConcurrent ==
    /\ pc = "idle"
    /\ op = "none"
    /\ args = NoArgs
    /\ calls = << >>
    /\ awaits = << >>
    /\ pollSeq = << >>
    /\ err = nil
    /\ result = nil
    /\ roleOut = NilRole
    /\ locationInfo = {}
    /\ storage \in SUBSET WorkflowLocations
    /\ role = NilRole
    /\ wf = [w \in Workflows |-> NewWorkflow(w)]

----------------------------------------------------------------------------
(* The caller takes the result and is free to call again. *)

Returned ==
    /\ pc = "done"
    /\ pc' = "idle"
    /\ op' = "none"
    /\ args' = NoArgs
    /\ calls' = << >>
    /\ awaits' = << >>
    /\ pollSeq' = << >>
    /\ err' = nil
    /\ result' = nil
    /\ roleOut' = NilRole
    /\ locationInfo' = {}
    /\ UNCHANGED storage
    /\ UNCHANGED <<role, wf>>

----------------------------------------------------------------------------

Init ==
    /\ pc = "idle"
    /\ op = "none"
    /\ args = NoArgs
    /\ calls = << >>
    /\ awaits = << >>
    /\ pollSeq = << >>
    /\ err = nil
    /\ result = nil
    /\ roleOut = NilRole
    /\ locationInfo = {}
    /\ storage \in SUBSET (Locations \ {""})
    /\ role = NilRole
    /\ wf = << >>

Next ==
    \/ Poll
    \/ CreateAzureVM
    \/ CreateAzureVM_CreateHostedService
    \/ CreateAzureVM_HostedServiceAwaited
    \/ uploadServiceCert
    \/ uploadServiceCert_Return
    \/ CreateAzureVM_CertUploaded
    \/ CreateAzureVM_Deploy
    \/ CreateAzureVM_DeployFailed
    \/ CreateAzureVM_Return
    \/ RoleOperation
    \/ RoleOperation_Submit
    \/ RoleOperation_Return
    \/ DeleteVMDeployment
    \/ DeleteVMDeployment_Submit
    \/ DeleteVMDeployment_Return
    \/ SetVirtualNetworkConfiguration
    \/ SetVirtualNetworkConfiguration_Return
    \/ CreateAzureVMConfiguration
    \/ CreateAzureVMConfiguration_GetLocation
    \/ createOSVirtualHardDisk
    \/ getVHDMediaLink_Lookup
    \/ getVHDMediaLink_Create
    \/ getVHDMediaLink_Endpoint
    \/ Returned

Spec == Init /\ [][Next]_vars

NextBuilder ==
    \/ AddAzureLinuxProvisioningConfig
    \/ SetAzureVMExtension
    \/ SetAzureDockerVMExtension
    \/ CreateAzureVM_OfRole
    \/ CreateAzureVM_CreateHostedService
    \/ CreateAzureVM_HostedServiceAwaited
    \/ uploadServiceCert
    \/ uploadServiceCert_Return
    \/ CreateAzureVM_CertUploaded
    \/ CreateAzureVM_Deploy
    \/ CreateAzureVM_DeployFailed
    \/ CreateAzureVM_Return
    \/ Poll
    \/ Returned

SpecBuilder == InitBuilder /\ [][NextBuilder]_vars

\* The builders alone, on the Role the caller holds.
NextRole ==
    \/ AddAzureLinuxProvisioningConfig
    \/ SetAzureVMExtension
    \/ SetAzureDockerVMExtension
    \/ Returned

SpecRole == InitBuilder /\ [][NextRole]_vars

NextPassword ==
    \/ verifyPassword_Call
    \/ Returned

SpecPassword == Init /\ [][NextPassword]_vars

NextConcurrent ==
    \E w \in Workflows :
        \/ Wf_CreateAzureVMConfiguration(w)
        \/ Wf_GetLocation(w)
        \/ Wf_createOSVirtualHardDisk(w)
        \/ Wf_getVHDMediaLink_Lookup(w)
        \/ Wf_getVHDMediaLink_Create(w)
        \/ Wf_getVHDMediaLink_Endpoint(w)
        \/ Wf_CreateAzureVM(w)
        \/ Wf_CreateHostedService(w)
        \/ Wf_Poll(w)
        \/ Wf_HostedServiceAwaited(w)
        \/ Wf_Deploy(w)
        \/ Wf_DeployFailed(w)
        \/ Wf_Return(w)

SpecConcurrent == InitConcurrent /\ [][NextConcurrent]_vars

----------------------------------------------------------------------------
(* Vocabulary of the properties *)

\* The calls named name that the provider accepted.
AcceptedCalls(name) == {i \in Issued(name) : calls[i].err = nil}

\* The error returned by the waitAsyncOperation call on request id.
AwaitErr(id) ==
    LET i == CHOOSE j \in 1..Len(awaits) : awaits[j].id = id IN awaits[i].err

AwaitedAndReturned(id) == \E j \in 1..Len(awaits) : awaits[j].id = id /\ awaits[j].done

IsCode(e, code) == e # nil /\ e[1].code = code

InProgressAnswer == [err |-> FALSE, status |-> "InProgress", code |-> ""]

SucceededAnswer == [err |-> FALSE, status |-> "Succeeded", code |-> ""]

TransportFailure == [err |-> TRUE, status |-> "", code |-> ""]

TerminalAnswer(a) == ~a.err /\ a.status \in {"Succeeded", "Failed"}

\* pollSeq is some InProgress answers followed by Succeeded.
InProgressThenSucceeded ==
    /\ Len(pollSeq) > 0
    /\ pollSeq[Len(pollSeq)] = SucceededAnswer
    /\ \A i \in 1..(Len(pollSeq) - 1) : pollSeq[i] = InProgressAnswer

----------------------------------------------------------------------------
(* C1 *)

\* CreateAzureVM returned, the hosted-service creation had been submitted, and
\* the certificate upload step failed: the file was not readable or the
\* submission was rejected (no accepted submission), or the awaited operation
\* ended in Failed or Timeout.
CertUploadFailed ==
    /\ op = "CreateAzureVM"
    /\ pc = "done"
    /\ args.cfg.UseCertAuth
    /\ AcceptedCalls("CreateHostedService") # {}
    /\ \/ AcceptedCalls("POST certificates") = {}
       \/ \E i \in AcceptedCalls("POST certificates") : AwaitErr(calls[i].id) # nil

\* The certificate upload step's own error.
CertUploadError ==
    IF AcceptedCalls("POST certificates") # {}
    THEN AwaitErr(calls[CHOOSE i \in AcceptedCalls("POST certificates") : TRUE].id)
    ELSE IF Issued("POST certificates") # {}
    THEN calls[CHOOSE i \in Issued("POST certificates") : TRUE].err
    ELSE ReadFileError

\* C1: when the certificate upload step of CreateAzureVM fails after the
\* hosted-service creation was submitted, DeleteHostedService is issued exactly
\* once, no deployment is submitted, and CreateAzureVM returns the certificate
\* upload step's own error.
C1_CertFailureCompensatedOnce ==
    CertUploadFailed =>
        /\ Cardinality(Issued("DeleteHostedService")) = 1
        /\ Issued("POST deployments") = {}
        /\ result = CertUploadError
        /\ result # nil

C1_Witness ==
    /\ CertUploadFailed
    /\ IsCode(result, "RemoteOperationFailed")
    /\ Cardinality(Issued("DeleteHostedService")) = 1

----------------------------------------------------------------------------
(* C2 *)

\* C2: if the awaited hosted-service creation ends in Failed or Timeout,
\* CreateAzureVM aborts: it submits neither a certificate upload nor a
\* deployment, and it returns an error.
C2_HostedServiceFailureAborts ==
    (/\ op = "CreateAzureVM"
     /\ Len(awaits) >= 1
     /\ awaits[1].done
     /\ awaits[1].err # nil)
    => /\ Issued("POST certificates") = {}
       /\ Issued("POST deployments") = {}
       /\ (pc = "done" => result # nil)

----------------------------------------------------------------------------
(* C3 *)

\* C3: if the deployment was submitted and its awaited operation ends in
\* Failed or Timeout, the hosted service is deleted and CreateAzureVM returns a
\* failure; it returns success only when the deployment operation Succeeded.
C3_DeploymentFailureCompensated ==
    (/\ op = "CreateAzureVM"
     /\ pc = "done"
     /\ \E i \in AcceptedCalls("POST deployments") : AwaitErr(calls[i].id) # nil)
    => /\ Issued("DeleteHostedService") # {}
       /\ result # nil

----------------------------------------------------------------------------
(* C4 *)

\* C4: a role operation or DeleteVMDeployment whose submission was accepted
\* makes exactly one submission and exactly one await, of the returned request
\* id, and returns an error whenever the awaited operation ended in Failed or
\* Timeout.
C4_SingleSubmitAwaitReportsFailure ==
    (/\ op \in RoleOps \cup {"DeleteVMDeployment"}
     /\ pc = "done"
     /\ Len(calls) > 0
     /\ calls[1].err = nil)
    => /\ Len(calls) = 1
       /\ Len(awaits) = 1
       /\ awaits[1].id = calls[1].id
       /\ (awaits[1].err # nil => result # nil)

----------------------------------------------------------------------------
(* C5 *)

\* Every poll of the latest await was answered InProgress, up to the ceiling.
InProgressUntilCeiling ==
    /\ Len(pollSeq) = MaxPolls
    /\ \A i \in 1..Len(pollSeq) : pollSeq[i] = InProgressAnswer

\* C5: an await whose polls answer InProgress until the wait ceiling fails
\* with Timeout, not RemoteOperationFailed; RemoteOperationFailed is returned
\* only after a poll observed Failed; and SetVirtualNetworkConfiguration hands
\* exactly that distinction to its caller.
C5_TimeoutDistinctFromFailed ==
    /\ (AwaitReturned /\ InProgressUntilCeiling) =>
          /\ LastAwait.err = Timeout
          /\ ~IsCode(LastAwait.err, "RemoteOperationFailed")
    /\ (AwaitReturned /\ IsCode(LastAwait.err, "RemoteOperationFailed")) =>
          /\ ~pollSeq[Len(pollSeq)].err
          /\ pollSeq[Len(pollSeq)].status = "Failed"
    /\ (op = "SetVirtualNetworkConfiguration" /\ pc = "done" /\ AwaitReturned) =>
          /\ InProgressUntilCeiling => result = Timeout
          /\ IsCode(result, "RemoteOperationFailed") =>
                pollSeq[Len(pollSeq)].status = "Failed"

C5_Witness ==
    /\ op = "SetVirtualNetworkConfiguration"
    /\ pc = "done"
    /\ AwaitReturned
    /\ InProgressUntilCeiling
    /\ result = Timeout

----------------------------------------------------------------------------
(* C6 *)

\* C6: await returns at the first poll that observes a terminal status and
\* polls no more: no answer before the last is terminal, a returned await
\* made exactly the polls recorded, n InProgress answers followed by Succeeded
\* give success after exactly n+1 polls (3 polls for [InProgress, InProgress,
\* Succeeded]), and uploadServiceCert returns success exactly when the last
\* poll observed Succeeded.
C6_ReturnsAtFirstTerminalPoll ==
    /\ \A i \in 1..(Len(pollSeq) - 1) : ~TerminalAnswer(pollSeq[i])
    /\ Len(awaits) > 0 => LastAwait.polls = Len(pollSeq)
    /\ (Len(pollSeq) > 0 /\ TerminalAnswer(pollSeq[Len(pollSeq)])) => AwaitReturned
    /\ (AwaitReturned /\ InProgressThenSucceeded) =>
          /\ LastAwait.err = nil
          /\ LastAwait.polls = Len(pollSeq)
    /\ (AwaitReturned /\ pollSeq = <<InProgressAnswer, InProgressAnswer, SucceededAnswer>>) =>
          /\ LastAwait.err = nil
          /\ LastAwait.polls = 3
    /\ (op = "CreateAzureVM" /\ pc = "certReturned" /\ AcceptedCalls("POST certificates") # {}) =>
          (err = nil <=> pollSeq[Len(pollSeq)] = SucceededAnswer)

C6_Witness ==
    /\ op = "CreateAzureVM"
    /\ pc = "certReturned"
    /\ pollSeq = <<InProgressAnswer, InProgressAnswer, SucceededAnswer>>
    /\ LastAwait.polls = 3
    /\ err = nil

----------------------------------------------------------------------------
(* C7 *)

\* C7: a transport failure on a status poll does not end await: an await whose
\* last poll failed at the transport has returned only if the wait ceiling was
\* reached, and then with Timeout; a poll sequence that ends in Succeeded
\* yields success whatever transport failures precede it; and
\* RemoteOperationFailed is never returned for a poll that failed at the
\* transport.
C7_TransportFailureRetried ==
    /\ (AwaitReturned /\ pollSeq[Len(pollSeq)].err) =>
          /\ Len(pollSeq) = MaxPolls
          /\ LastAwait.err = Timeout
    /\ (Len(awaits) > 0 /\ Len(pollSeq) > 0 /\ Len(pollSeq) < MaxPolls
        /\ pollSeq[Len(pollSeq)].err) => Awaiting
    /\ (AwaitReturned /\ pollSeq[Len(pollSeq)] = SucceededAnswer) => LastAwait.err = nil

C7_Witness ==
    /\ AwaitReturned
    /\ pollSeq = <<TransportFailure, SucceededAnswer>>
    /\ LastAwait.err = nil

----------------------------------------------------------------------------
(* C8 *)

\* C8: when a compensating DeleteHostedService of CreateAzureVM fails, the
\* error CreateAzureVM returns carries the triggering error first and the
\* failure of the compensation after it.
C8_CompensationFailureSurfaced ==
    (/\ op = "CreateAzureVM"
     /\ pc = "done"
     /\ \E i \in Issued("DeleteHostedService") : calls[i].err # nil)
    => /\ Len(result) >= 2
       /\ <<result[1]>> = err
       /\ \E i \in Issued("DeleteHostedService") : <<result[2]>> = calls[i].err

----------------------------------------------------------------------------
(* C9 *)

\* The running operation was called with input it has to reject locally.
InvalidInput ==
    \/ /\ op = "CreateAzureVM"
       /\ \/ args.cfg.IsNil
          \/ args.dnsName = ""
          \/ args.location = ""
          \/ Len(args.dnsName) < 3
          \/ Len(args.dnsName) > 25
    \/ /\ op \in RoleOps
       /\ "" \in {args.cloudserviceName, args.deploymentName, args.roleName}
    \/ /\ op = "DeleteVMDeployment"
       /\ "" \in {args.cloudserviceName, args.deploymentName}

ValidationError(e) ==
    IsCode(e, "paramNotSpecifiedError") \/ IsCode(e, "invalidDnsLengthError")

\* C9: a public mutating operation that rejects its input locally returns the
\* validation error without having issued any transport call.
C9_ValidationBeforeAnyCall ==
    /\ InvalidInput =>
          /\ pc = "done"
          /\ ValidationError(result)
          /\ TransportCalls = 0
    /\ (/\ op \in RoleOps \cup {"CreateAzureVM", "DeleteVMDeployment"}
        /\ pc = "done"
        /\ ValidationError(result)) => TransportCalls = 0

C9_Witness ==
    /\ op = "CreateAzureVM"
    /\ pc = "done"
    /\ ~args.cfg.IsNil
    /\ Len(args.dnsName) = 26
    /\ result = invalidDnsLengthError
    /\ TransportCalls = 0

----------------------------------------------------------------------------
(* C10 *)

\* The location lookup of CreateAzureVMConfiguration answered, and the
\* requested size is not among the location's available sizes.
SizeNotInLocation ==
    /\ op = "CreateAzureVMConfiguration"
    /\ AcceptedCalls("GetLocation") # {}
    /\ args.instanceSize \notin locationInfo

ConfigurationWork ==
    Issued("ResolveImageName") \cup Issued("GetStorageServiceByLocation")
    \cup Issued("CreateStorageService") \cup Issued("GetBlobEndpoint")

\* C10: CreateAzureVMConfiguration with an instance size that is not in the
\* location's available-size set fails with the size/location mismatch error
\* before any image resolution, storage-service lookup or creation, or role
\* construction; a Role is returned only when the size is in that set.
C10_SizeCheckedBeforeConfiguration ==
    /\ SizeNotInLocation =>
          /\ pc = "done"
          /\ result = invalidRoleSizeInLocationError(args.instanceSize, args.location)
          /\ ConfigurationWork = {}
          /\ roleOut = NilRole
    /\ (op = "CreateAzureVMConfiguration" /\ (roleOut # NilRole \/ ConfigurationWork # {})) =>
          /\ AcceptedCalls("GetLocation") # {}
          /\ args.instanceSize \in locationInfo

C10_Witness ==
    /\ SizeNotInLocation
    /\ pc = "done"
    /\ args.instanceSize = "Large"
    /\ locationInfo = {"Small"}
    /\ result = invalidRoleSizeInLocationError("Large", "West US")

----------------------------------------------------------------------------
(* C13 *)

\* The operation of request id is outstanding: its await has not returned, or
\* it returned Timeout, no poll having observed a terminal status.
Outstanding(id) == ~AwaitedAndReturned(id) \/ AwaitErr(id) = Timeout

\* C13: within one CreateAzureVM call no further request (certificate upload,
\* deployment, compensating delete) is submitted while an operation the call
\* submitted earlier is still InProgress.
C13_OneOutstandingOperation ==
    op = "CreateAzureVM" =>
        \A i \in 1..Len(calls) : \A j \in 1..Len(calls) :
            (i < j /\ calls[i].id > 0) => ~Outstanding(calls[i].id)

----------------------------------------------------------------------------
(* C18 *)

\* C18: CreateAzureVM calls DeleteHostedService at most once; never when it
\* returns success, never when validation or the hosted-service creation
\* submission failed; exactly once when it returns an error after the
\* hosted-service creation submission was accepted.
C18_CompensationExactlyWhenNeeded ==
    op = "CreateAzureVM" =>
        /\ Cardinality(Issued("DeleteHostedService")) <= 1
        /\ AcceptedCalls("CreateHostedService") = {} => Issued("DeleteHostedService") = {}
        /\ (pc = "done" /\ result = nil) => Issued("DeleteHostedService") = {}
        /\ (pc = "done" /\ result # nil /\ AcceptedCalls("CreateHostedService") # {}) =>
              Cardinality(Issued("DeleteHostedService")) = 1

C18_Witness ==
    /\ op = "CreateAzureVM"
    /\ pc = "done"
    /\ result = TransportError
    /\ AcceptedCalls("CreateHostedService") # {}
    /\ Issued("POST deployments") # {}
    /\ Cardinality(Issued("DeleteHostedService")) = 1

----------------------------------------------------------------------------
(* C19 *)

\* C19: SetVirtualNetworkConfiguration awaits the operation only if the PUT
\* was accepted, and then awaits the request id the PUT returned and returns
\* the tracker's outcome: nil exactly when the last poll observed Succeeded,
\* the tracker's error otherwise; a submission error is returned without any
\* await.
C19_VnetReturnsTrackerOutcome ==
    op = "SetVirtualNetworkConfiguration" =>
        /\ Len(calls) = 1
        /\ calls[1].err # nil =>
              /\ awaits = << >>
              /\ pc = "done"
              /\ result = calls[1].err
        /\ calls[1].err = nil =>
              /\ Len(awaits) = 1
              /\ awaits[1].id = calls[1].id
              /\ pc = "done" =>
                    /\ awaits[1].done
                    /\ result = awaits[1].err
                    /\ result = nil <=> pollSeq[Len(pollSeq)] = SucceededAnswer

C19_Witness ==
    /\ op = "SetVirtualNetworkConfiguration"
    /\ pc = "done"
    /\ Len(awaits) = 1
    /\ IsCode(awaits[1].err, "RemoteOperationFailed")
    /\ result = awaits[1].err

----------------------------------------------------------------------------
(* C20 *)

StorageCalls ==
    {"GetStorageServiceByLocation", "CreateStorageService", "GetBlobEndpoint"}

\* The storage calls getVHDMediaLink has issued, in order.
StorageCallLog == SelectSeq(calls, LAMBDA c : c.call \in StorageCalls)

\* C20: getVHDMediaLink looks up, creates if absent, then derives the URL:
\* CreateStorageService follows a lookup that found no service and gave no
\* error, and is never called when the location has a service; the blob
\* endpoint is read only after the service was found or created; a failed
\* lookup, creation or endpoint read is the last step and returns an error and
\* no link.
C20_LookupCreateDerive ==
    op = "CreateAzureVMConfiguration" =>
        LET log == StorageCallLog IN
        /\ Len(log) >= 1 => log[1].call = "GetStorageServiceByLocation"
        /\ \A i \in 1..Len(log) :
              /\ i > 1 => log[i - 1].err = nil
              /\ log[i].call = "GetStorageServiceByLocation" => i = 1
              /\ log[i].call = "CreateStorageService" => i = 2
              /\ log[i].call = "GetBlobEndpoint" =>
                    /\ i = Len(log)
                    /\ args.location \in storage
              /\ log[i].err # nil =>
                    /\ i = Len(log)
                    /\ pc = "done"
                    /\ result = log[i].err
                    /\ roleOut = NilRole
        /\ pc = "CreateStorageService" =>
              /\ args.location \notin storage
              /\ Len(log) = 1
        /\ (Len(log) = 3 /\ pc = "done" /\ result = nil) => roleOut # NilRole

C20_Witness ==
    /\ op = "CreateAzureVMConfiguration"
    /\ pc = "done"
    /\ result = nil
    /\ Len(StorageCallLog) = 3
    /\ StorageCallLog[2].call = "CreateStorageService"
    /\ roleOut # NilRole

----------------------------------------------------------------------------
(* C11 *)

\* Positions of the configuration sets of the given type in a Role.
SetsOfType(cfg, type) ==
    {i \in 1..Len(cfg.ConfigurationSets) :
        cfg.ConfigurationSets[i].ConfigurationSetType = type}

\* C11: every Role CreateAzureVM submits as a deployment has exactly one
\* provisioning configuration set and at most one network configuration set,
\* whatever builder calls preceded the submission.
C11_SubmittedRoleHasOneProvisioningSet ==
    (op = "CreateAzureVM" /\ Issued("POST deployments") # {}) =>
        /\ Cardinality(SetsOfType(args.cfg, "LinuxProvisioningConfiguration")) = 1
        /\ Cardinality(SetsOfType(args.cfg, "NetworkConfiguration")) <= 1

----------------------------------------------------------------------------
(* C12 *)

\* The provisioning configuration attached to the Role asks for certificate
\* authentication: it carries an SSH public key, which it does exactly when
\* the AddAzureLinuxProvisioningConfig call that attached it had a certPath.
CertAuthRequested(cfg) ==
    \E i \in SetsOfType(cfg, "LinuxProvisioningConfiguration") :
        Len(cfg.ConfigurationSets[i].SSH) > 0

CertUploadStep ==
    \/ pc \in {"uploadServiceCert", "waitCert", "certReturned"}
    \/ Issued("POST certificates") # {}

PastCertUploadStep ==
    \/ pc \in {"deploy", "waitDeployment"}
    \/ Issued("POST deployments") # {}

\* C12: CreateAzureVM performs the certificate upload exactly when the
\* provisioning configuration attached to the Role, that of the last
\* successful AddAzureLinuxProvisioningConfig call, was given a certPath.
C12_CertUploadIffCertAuthAttached ==
    op = "CreateAzureVM" =>
        /\ CertUploadStep => CertAuthRequested(args.cfg)
        /\ (PastCertUploadStep /\ CertAuthRequested(args.cfg)) =>
              Issued("POST certificates") # {}

----------------------------------------------------------------------------
(* C15 *)

\* AddAzureLinuxProvisioningConfig returned, having reached
\* createLinuxProvisioningConfig.
ProvisioningConfigBuilt ==
    /\ op = "AddAzureLinuxProvisioningConfig"
    /\ pc = "done"
    /\ ~args.cfg.IsNil
    /\ Len(args.userName) > 0

\* C15: createLinuxProvisioningConfig with an empty password gives
\* DisableSshPasswordAuthentication = true and a non-empty placeholder
\* password that passes verifyPassword; with a non-empty password it gives
\* DisableSshPasswordAuthentication = false and that password, or, when the
\* password fails verifyPassword, that error and no configuration.
C15_PlaceholderOrGivenPassword ==
    ProvisioningConfigBuilt =>
        /\ result = nil =>
              LET provisioningConfig == role.ConfigurationSets[1] IN
              /\ provisioningConfig.ConfigurationSetType = "LinuxProvisioningConfiguration"
              /\ Len(args.password) = 0 =>
                    /\ provisioningConfig.DisableSshPasswordAuthentication
                    /\ Len(provisioningConfig.UserPassword) > 0
                    /\ \A order \in ClassOrders :
                          verifyPassword(provisioningConfig.UserPassword, order) = nil
              /\ Len(args.password) > 0 =>
                    /\ ~provisioningConfig.DisableSshPasswordAuthentication
                    /\ provisioningConfig.UserPassword = args.password
        /\ (Len(args.password) > 0
            /\ \E order \in ClassOrders : verifyPassword(args.password, order) # nil) =>
              /\ result \in {invalidPasswordError, invalidPasswordLengthError}
              /\ roleOut = NilRole
              /\ role = args.cfg

C15_Witness ==
    /\ ProvisioningConfigBuilt
    /\ result = nil
    /\ Len(args.password) = 0
    /\ role.ConfigurationSets[1].DisableSshPasswordAuthentication
    /\ role.ConfigurationSets[1].UserPassword = DummyPassword

----------------------------------------------------------------------------
(* C16 *)

\* C16: a provisioning configuration produced with password authentication
\* disabled carries at least one SSH public key whose fingerprint is that of
\* the certificate.
C16_DisabledPasswordHasSshKey ==
    (ProvisioningConfigBuilt /\ result = nil) =>
        LET provisioningConfig == role.ConfigurationSets[1] IN
        provisioningConfig.DisableSshPasswordAuthentication =>
            /\ Len(provisioningConfig.SSH) >= 1
            /\ \A k \in 1..Len(provisioningConfig.SSH) :
                  \E der \in DOMAIN Sha1Hex :
                      provisioningConfig.SSH[k].Fingerprint = Sha1Hex[der]

----------------------------------------------------------------------------
(* C14 *)

HasCharOf(password, chars) == \E k \in 1..Len(password) : password[k] \in chars

\* C14: verifyPassword accepts a password exactly when its length is in
\* [4, 30] and it has an upper-case, a lower-case and a numeric character; a
\* length outside the range gives invalidPasswordLengthError, a missing class
\* invalidPasswordError; the verdict is the same in whatever order the classes
\* are examined.
C14_PasswordVerdict ==
    (op = "verifyPassword" /\ pc = "done") =>
        LET password == args.password IN
        /\ result = nil <=>
              /\ Len(password) >= 4
              /\ Len(password) <= 30
              /\ HasCharOf(password, UpperChars)
              /\ HasCharOf(password, LowerChars)
              /\ HasCharOf(password, NumericChars)
        /\ (Len(password) < 4 \/ Len(password) > 30) => result = invalidPasswordLengthError
        /\ (result # nil /\ Len(password) >= 4 /\ Len(password) <= 30) =>
              result = invalidPasswordError
        /\ \A order \in ClassOrders : verifyPassword(password, order) = result

\* A password of 30 characters with the three classes is accepted.
C14_Witness ==
    /\ op = "verifyPassword"
    /\ pc = "done"
    /\ Len(args.password) = 30
    /\ result = nil

----------------------------------------------------------------------------
(* C17 *)

\* Workflow w has created a storage service.
CreatedStorageService(w) ==
    \E i \in 1..Len(wf[w].calls) :
        wf[w].calls[i] = WfCall("CreateStorageService", nil)

\* C17: two concurrent workflows for different DNS names do not interfere:
\* each issues the remote calls it issues when it runs alone.  Alone, the
\* lookup of a workflow finds a storage service exactly when the location had
\* one when the workflow began, and a storage service is created only for a
\* location that has none, so no location gets one from each workflow.
C17_WorkflowsDoNotInterfere ==
    \A w \in Workflows :
        /\ wf[w].found = "service" => wf[w].location \in wf[w].start
        /\ wf[w].found = "nil" => wf[w].location \notin wf[w].start
        /\ CreatedStorageService(w) =>
              \A v \in Workflows \ {w} :
                  ~(CreatedStorageService(v) /\ wf[v].location = wf[w].location)

----------------------------------------------------------------------------
(* C21 *)

\* The role holds exactly one LinuxProvisioningConfiguration set and exactly
\* one NetworkConfiguration set, and no other set.
OneSetOfEach(cfg) ==
    /\ Len(cfg.ConfigurationSets) = 2
    /\ Cardinality(SetsOfType(cfg, "LinuxProvisioningConfiguration")) = 1
    /\ Cardinality(SetsOfType(cfg, "NetworkConfiguration")) = 1

\* The step is a call of the builder b that returns.
BuilderCall(b) == pc = "idle" /\ pc' = "done" /\ op' = b

\* C21: AddAzureLinuxProvisioningConfig replaces the configuration sets: a
\* successful call leaves the role with exactly one provisioning and exactly
\* one network configuration set, no later builder call changes that, and a
\* failed call leaves the configuration sets, UseCertAuth and CertPath of the
\* role as they were.
C21_AddReplacesConfigurationSets ==
    [][/\ (BuilderCall("AddAzureLinuxProvisioningConfig") /\ result' = nil) =>
              OneSetOfEach(role')
       /\ (BuilderCall("AddAzureLinuxProvisioningConfig") /\ result' # nil) =>
              /\ role'.ConfigurationSets = role.ConfigurationSets
              /\ role'.UseCertAuth = role.UseCertAuth
              /\ role'.CertPath = role.CertPath
       /\ OneSetOfEach(role) => OneSetOfEach(role')]_vars

\* A successful AddAzureLinuxProvisioningConfig on a role that already had a
\* docker endpoint and its extension: the sets were replaced.
C21_Witness ==
    /\ op = "AddAzureLinuxProvisioningConfig"
    /\ pc = "done"
    /\ result = nil
    /\ Len(args.cfg.ConfigurationSets) = 2
    /\ Len(args.cfg.ConfigurationSets[2].InputEndpoints) = 2
    /\ Len(role.ResourceExtensionReferences) = 1
    /\ OneSetOfEach(role)
    /\ Len(role.ConfigurationSets[2].InputEndpoints) = 1

----------------------------------------------------------------------------
(* C22 *)

\* Positions of the DockerExtension references of a Role.
DockerExtensions(cfg) ==
    {i \in 1..Len(cfg.ResourceExtensionReferences) :
        cfg.ResourceExtensionReferences[i].Name = "DockerExtension"}

\* The DockerPort of the public configuration of a DockerExtension reference.
ExtensionDockerPort(extension) ==
    LET values == extension.ResourceExtensionParameterValues
        public == CHOOSE k \in 1..Len(values) : values[k].Type = "Public"
    IN  values[public].Value[2][2]

\* Positions of the input endpoints named docker of a configuration set.
DockerEndpoints(set) ==
    {k \in 1..Len(set.InputEndpoints) : set.InputEndpoints[k].Name = "docker"}

\* C22: whenever the role carries a DockerExtension reference, its
\* NetworkConfiguration set has exactly one input endpoint named docker, and
\* the port of that endpoint is the port of the extension's public
\* configuration.
C22_DockerExtensionHasItsEndpoint ==
    \A i \in DockerExtensions(role) :
        /\ SetsOfType(role, "NetworkConfiguration") # {}
        /\ \A n \in SetsOfType(role, "NetworkConfiguration") :
              LET set == role.ConfigurationSets[n] IN
              /\ Cardinality(DockerEndpoints(set)) = 1
              /\ \A k \in DockerEndpoints(set) :
                    set.InputEndpoints[k].Port =
                        ExtensionDockerPort(role.ResourceExtensionReferences[i])

----------------------------------------------------------------------------
(* C23 *)

\* C23: AddAzureLinuxProvisioningConfig and SetAzureDockerVMExtension return
\* either the role and a nil error, or a nil role and an error, never a nil
\* role with a nil error; SetAzureDockerVMExtension on a role without
\* configuration sets returns provisioningConfDoesNotExistsError and adds no
\* extension.
C23_RoleOrError ==
    (pc = "done" /\ op \in {"AddAzureLinuxProvisioningConfig", "SetAzureDockerVMExtension"}) =>
        /\ result = nil => (~roleOut.IsNil /\ roleOut = role)
        /\ result # nil => roleOut.IsNil
        /\ (op = "SetAzureDockerVMExtension" /\ ~args.cfg.IsNil
            /\ Len(args.cfg.ConfigurationSets) = 0) =>
              /\ result = provisioningConfDoesNotExistsError
              /\ roleOut.IsNil
              /\ role.ResourceExtensionReferences = args.cfg.ResourceExtensionReferences
              /\ role.ConfigurationSets = args.cfg.ConfigurationSets

C23_Witness ==
    /\ op = "SetAzureDockerVMExtension"
    /\ pc = "done"
    /\ ~args.cfg.IsNil
    /\ Len(args.cfg.ConfigurationSets) = 0
    /\ result = provisioningConfDoesNotExistsError
    /\ roleOut.IsNil
    /\ Len(role.ResourceExtensionReferences) = 0

====
